---- MODULE Spec2Model ----
(***************************************************************************)
(* Home Library App (src/library-app/app.js): the IndexedDB object store   *)
(* "books", the dbAPI wrappers around it, and the handlers that read and   *)
(* write it (book form save, export, import, refresh).                     *)
(*                                                                         *)
(* A book record is a function from field names to values; a field that a  *)
(* JavaScript object does not have is a name outside the DOMAIN.  Text     *)
(* that the code trims (title, author, lentTo) is a sequence of            *)
(* one-character strings; timestamps are integers read from the clock.     *)
(***************************************************************************)
EXTENDS Integers, Sequences, FiniteSets, TLC

\* ---------------------------------------------------------------- bounds
MaxKey == 2       \* the key generator hands out keys 1..MaxKey
MaxClock == 1     \* the clock runs from 0 to MaxClock
MaxPending == 2   \* transactions created and not yet finished
MaxFaults == 1    \* transactions the environment lets fail

\* ------------------------------------------------------ JavaScript values
NullStr == <<"<null>">>      \* null in a field that otherwise holds text
Null == "<null>"             \* null in a field that otherwise holds a date string

Spread(a, b) == [k \in (DOMAIN a) \cup (DOMAIN b) |-> IF k \in DOMAIN b THEN b[k] ELSE a[k]]

Without(r, f) == [k \in (DOMAIN r) \ {f} |-> r[k]]

NoFields == [k \in {} |-> 0]

\* a form value taken as typed
TrimNothing(s) == s

RECURSIVE TrimStart(_)
TrimStart(s) == IF s # <<>> /\ Head(s) = " " THEN TrimStart(Tail(s)) ELSE s

RECURSIVE TrimEnd(_)
TrimEnd(s) == IF s # <<>> /\ s[Len(s)] = " " THEN TrimEnd(SubSeq(s, 1, Len(s) - 1)) ELSE s

Trim(s) == TrimEnd(TrimStart(s))

\* an Array, or the IDBRequest object an object-store method returns
ArrayOf(items) == [kind |-> "Array", items |-> items]

RequestOf(result) == [kind |-> "IDBRequest", items |-> result]

IsArray(v) == v.kind = "Array"

\* ------------------------------------------------------------ the Store
VARIABLES
  db,        \* object store "books": key -> record
  keyGen,    \* current number of the store's key generator
  txq,       \* transactions created and not finished, oldest first
  faults,    \* transactions that have failed so far
  hung,      \* handlers awaiting a promise that can no longer settle
  assigned   \* every key a record of the store has had so far

RECURSIVE SortedKeys(_)
SortedKeys(S) ==
  IF S = {} THEN <<>>
  ELSE LET m == CHOOSE x \in S : \A y \in S : x <= y
       IN <<m>> \o SortedKeys(S \ {m})

\* IDBObjectStore.getAll(): every record, in key order
Contents(store) == LET ks == SortedKeys(DOMAIN store) IN [i \in 1..Len(ks) |-> store[ks[i]]]

\* keyPath 'id', autoIncrement: a value whose id evaluates to undefined gets
\* the generator's current number; an explicit key at or above the current
\* number moves the generator past it
HasKey(value) == "id" \in DOMAIN value

KeyOf(value, gen) == IF HasKey(value) THEN value.id ELSE gen

\* a generator that hands out its current number without moving past it
GenAfterStuck(value, gen) == gen

GenAfter(value, gen) ==
  IF HasKey(value) THEN (IF value.id >= gen THEN value.id + 1 ELSE gen) ELSE gen + 1

StoreAdd(store, value, gen) ==
  LET key == KeyOf(value, gen) IN (key :> Spread(value, [id |-> key])) @@ store

StorePut(store, value, gen) ==
  LET key == KeyOf(value, gen) IN (key :> Spread(value, [id |-> key])) @@ store

StoreDelete(store, key) == [k \in (DOMAIN store) \ {key} |-> store[k]]

\* add() on a key that is already there raises ConstraintError
AddConflicts(store, value) == HasKey(value) /\ value.id \in DOMAIN store

\* a withStore that hands back the result of the request
WithStoreResultUnwrapped(requestResult) == ArrayOf(requestResult)

\* withStore: `const result = await fn(store)`.  fn returns what the object
\* store method returns, an IDBRequest; awaiting a value that is not a promise
\* yields that value, so the caller of dbAPI.getAll() receives the request
\* object (its result filled in once the transaction completes), not the array
WithStoreResult(requestResult) == RequestOf(requestResult)

\* ------------------------------------------------- presentation state
VARIABLES
  books,       \* state.books
  rendered,    \* rows of #bookList as renderList last built them
  modal,       \* the dialog shown with showModal(): "none", "book" or "lend"
  formId,      \* bookForm.id.value (0 for '')
  lendFormId,  \* lendForm.id.value
  now,         \* the clock new Date() reads
  imp,         \* the importData call in progress or last finished: its file
               \* (exported: the file is the last download and the Store is as
               \* it was at that export), the Store when it started, its locals
               \* arr, i, byId, and how it ended
  download,    \* the file the last exportData produced; idle: no operation was
               \* in flight then; mirrors: the file is the array of the records
               \* the Store held then; fresh: the Store has not changed since
  filtered     \* the array renderList sorts in place (line 111), used where
               \* the sort is studied on its own; sorted: the sort has run

vars == <<db, keyGen, txq, faults, hung, assigned, books, rendered, modal, formId, lendFormId, now, imp, download, filtered>>

\* book.status || 'available'
StatusOr(r) == IF "status" \in DOMAIN r /\ r.status \notin {"", Null} THEN r.status ELSE "available"

\* ------------------------------------------------------ order of the list
\* the letters titles are written with; a title is a sequence of them and
\* of spaces
Letters == <<"a", "b", "c", "d", "e", "f", "g", "h", "i", "j", "k", "l", "m", "n", "o", "p", "q", "r", "s", "t", "u", "v", "w", "x", "y", "z">>

Capitals == <<"A", "B", "C", "D", "E", "F", "G", "H", "I", "J", "K", "L", "M", "N", "O", "P", "Q", "R", "S", "T", "U", "V", "W", "X", "Y", "Z">>

\* String.prototype.toLowerCase, letter by letter
SmallOf == [c \in {Capitals[i] : i \in 1..26} |-> Letters[CHOOSE i \in 1..26 : Capitals[i] = c]]

Lower(c) == IF c \in DOMAIN SmallOf THEN SmallOf[c] ELSE c

ToLowerCase(s) == [i \in 1..Len(s) |-> Lower(s[i])]

\* String.prototype.startsWith and slice(n)
StartsWith(s, prefix) == Len(s) >= Len(prefix) /\ SubSeq(s, 1, Len(prefix)) = prefix

Slice(s, n) == SubSeq(s, n + 1, Len(s))

\* a normalizeTitle that looks for the articles in the title as written
NormalizeTitleAsWritten(t) ==
  LET s == Trim(IF t = NullStr THEN <<>> ELSE t)
  IN IF StartsWith(s, <<"t", "h", "e", " ">>) THEN Slice(s, 4)
     ELSE IF StartsWith(s, <<"a", " ">>) THEN Slice(s, 2)
     ELSE IF StartsWith(s, <<"a", "n", " ">>) THEN Slice(s, 3)
     ELSE s

\* normalizeTitle (lines 458-465); (t || '') takes a missing title as ''
NormalizeTitle(t) ==
  LET s == Trim(IF t = NullStr THEN <<>> ELSE t)
      low == ToLowerCase(s)
  IN IF StartsWith(low, <<"t", "h", "e", " ">>) THEN Slice(s, 4)
     ELSE IF StartsWith(low, <<"a", " ">>) THEN Slice(s, 2)
     ELSE IF StartsWith(low, <<"a", "n", " ">>) THEN Slice(s, 3)
     ELSE s

\* the weight localeCompare gives a character at sensitivity 'base': the
\* space before every letter, a capital the weight of its small letter
WeightOf == [c \in {Letters[i] : i \in 1..26} |-> CHOOSE i \in 1..26 : Letters[i] = c]

Weight(c) == IF c = " " THEN 0 ELSE WeightOf[Lower(c)]

\* ta.localeCompare(tb, undefined, { sensitivity: 'base' }) (line 473)
RECURSIVE LocaleCompare(_, _)
LocaleCompare(x, y) ==
  IF x = <<>> /\ y = <<>> THEN 0
  ELSE IF x = <<>> THEN -1
  ELSE IF y = <<>> THEN 1
  ELSE IF Weight(Head(x)) < Weight(Head(y)) THEN -1
  ELSE IF Weight(Head(x)) > Weight(Head(y)) THEN 1
  ELSE LocaleCompare(Tail(x), Tail(y))

\* a.title of a record that may have none
TitleOf(b) == IF "title" \in DOMAIN b THEN b.title ELSE NullStr

\* compareByTitle (lines 467-474)
CompareByTitle(a, b) ==
  LET ta == NormalizeTitle(TitleOf(a))
      tb == NormalizeTitle(TitleOf(b))
  IN IF ta = <<>> /\ tb = <<>> THEN 0
     ELSE IF ta = <<>> THEN 1
     ELSE IF tb = <<>> THEN -1
     ELSE LocaleCompare(ta, tb)

\* Array.prototype.sort(compareByTitle) (line 111): the sort is stable, each
\* element comes to stand behind those that do not compare greater
RECURSIVE InsertByTitle(_, _)
InsertByTitle(sorted, b) ==
  IF sorted = <<>> THEN <<b>>
  ELSE IF CompareByTitle(Head(sorted), b) > 0 THEN <<b>> \o sorted
  ELSE <<Head(sorted)>> \o InsertByTitle(Tail(sorted), b)

RECURSIVE SortByTitle(_)
SortByTitle(items) ==
  IF items = <<>> THEN <<>>
  ELSE InsertByTitle(SortByTitle(SubSeq(items, 1, Len(items) - 1)), items[Len(items)])

\* renderList with no filter set: one row per book in the order of the sort,
\* Lend disabled on a lent book and Return on any other
RenderList(bs) ==
  LET items == SortByTitle(bs.items)
  IN [i \in 1..Len(items) |-> [id |-> items[i].id, status |-> StatusOr(items[i])]]

\* state.books.find(b => b.id === id)
Find(bs, id) == {b \in {bs.items[i] : i \in 1..Len(bs.items)} : b.id = id}

\* JSON.stringify(state.books): an array of records, or "{}" for an object
\* with no own enumerable property
Stringify(v) == IF IsArray(v) THEN [type |-> "array", items |-> v.items] ELSE [type |-> "object", items |-> <<>>]

Tx(op, arg, h, pc) == [op |-> op, arg |-> arg, k |-> [h |-> h, pc |-> pc]]

NoImport == [phase |-> "idle", file |-> [type |-> "none", items |-> <<>>], arr |-> <<>>, i |-> 0,
             byId |-> NoFields, start |-> NoFields, exported |-> FALSE, outcome |-> "none"]

NoDownload == [made |-> FALSE, data |-> [type |-> "none", items |-> <<>>], idle |-> FALSE, mirrors |-> FALSE, fresh |-> FALSE]

\* init(): the database is open, the handlers are wired and refresh() has
\* issued its getAll
AppStart ==
  /\ db = NoFields
  /\ keyGen = 1
  /\ txq = <<Tx("getAll", NoFields, "init", "refresh")>>
  /\ faults = 0
  /\ hung = {}
  /\ assigned = {}
  /\ books = ArrayOf(<<>>)
  /\ rendered = <<>>
  /\ modal = "none"
  /\ formId = 0
  /\ lendFormId = 0
  /\ now = 0
  /\ imp = NoImport
  /\ download = NoDownload

\* renderList has not run
NotFiltered == [sorted |-> FALSE, items |-> <<>>]

Init == AppStart /\ filtered = NotFiltered

\* ------------------------------------------------------------ importData
\* the files the user can pick: text that is no JSON, JSON that is no array,
\* and arrays of these elements
ElemNew == [title |-> <<"D">>]

ElemLentOne == [id |-> 1, title |-> <<"E">>, status |-> "lent", createdAt |-> 9]

ElemUnmatched == [id |-> 9, title |-> <<"X">>]

ElemBlank == [title |-> <<" ">>, status |-> "lent"]

ImportFiles ==
  { [type |-> "garbage", items |-> <<>>],
    [type |-> "object", items |-> <<>>],
    [type |-> "array", items |-> <<ElemLentOne, ElemUnmatched, ElemBlank, ElemNew>>] }

\* lines 344-351: the element at position i is merged over the record byId
\* holds for its id, or added without its id; past the last element, refresh()
ImportLoop(im, i, q) ==
  IF i > Len(im.arr)
  THEN /\ txq' = Append(q, Tx("getAll", NoFields, "import", "refresh"))
       /\ imp' = [im EXCEPT !.phase = "refresh", !.i = i]
  ELSE LET raw == im.arr[i]
           rest == Without(raw, "id")
       IN /\ imp' = [im EXCEPT !.phase = "elem", !.i = i]
          /\ IF HasKey(raw) /\ raw.id # 0 /\ raw.id \in DOMAIN im.byId
             THEN txq' = Append(q, Tx("put",
                      Spread(Spread(Spread(im.byId[raw.id], rest), [id |-> raw.id]), [updatedAt |-> now]),
                      "import", "elem"))
             ELSE txq' = Append(q, Tx("add",
                      Spread(rest, [status |-> StatusOr(rest), createdAt |-> now, updatedAt |-> now]),
                      "import", "elem"))

\* line 343: new Map((await dbAPI.getAll()).map(b => [b.id, b])); map is a
\* method of arrays only, and the TypeError lands in the catch of line 354
ImportAfterGetAll(result, q) ==
  IF IsArray(result)
  THEN ImportLoop([imp EXCEPT !.byId = [id \in {result.items[j].id : j \in 1..Len(result.items)} |->
                                          CHOOSE b \in Find(result, id) : TRUE]], 1, q)
  ELSE /\ imp' = [imp EXCEPT !.phase = "done", !.outcome = "failed"]
       /\ txq' = q

\* refresh() after its getAll: state.books = ...; renderRoomsFilter() and
\* renderList() call map and filter on it
RefreshThrows(result) == ~IsArray(result)

\* the handler that awaited a transaction runs on from the await
Resume(k, result, q) ==
  CASE k.pc = "refresh" /\ k.h # "import" ->
         /\ books' = result
         /\ rendered' = IF RefreshThrows(result) THEN rendered ELSE RenderList(result)
         /\ txq' = q
         /\ UNCHANGED <<modal, imp>>
    [] k.pc = "write" ->
         /\ modal' = IF (k.h = "save" /\ modal = "book") \/ (k.h = "lend" /\ modal = "lend") THEN "none" ELSE modal
         /\ txq' = Append(q, Tx("getAll", NoFields, k.h, "refresh"))
         /\ UNCHANGED <<books, rendered, imp>>
    [] k.h = "import" /\ k.pc = "getAll" ->
         /\ ImportAfterGetAll(result, q)
         /\ UNCHANGED <<books, rendered, modal>>
    [] k.h = "import" /\ k.pc = "elem" ->
         /\ ImportLoop(imp, imp.i + 1, q)
         /\ UNCHANGED <<books, rendered, modal>>
    [] k.h = "import" /\ k.pc = "refresh" ->
         /\ books' = result
         /\ rendered' = IF RefreshThrows(result) THEN rendered ELSE RenderList(result)
         /\ imp' = [imp EXCEPT !.phase = "done", !.outcome = IF RefreshThrows(result) THEN "failed" ELSE "complete"]
         /\ txq' = q
         /\ UNCHANGED modal

\* the awaited promise rejects: importData catches (line 354), the other
\* handlers end there
Reject(k, q) ==
  /\ txq' = q
  /\ imp' = IF k.h = "import" THEN [imp EXCEPT !.phase = "done", !.outcome = "failed"] ELSE imp
  /\ UNCHANGED <<books, rendered, modal>>

\* ------------------------------------------------------- transactions
\* the oldest transaction completes: its request takes effect, tx.oncomplete
\* settles the promise of withStore (line 53) and the handler runs on
TxComplete ==
  /\ txq # <<>>
  /\ LET t == Head(txq) IN
       IF t.op = "add" /\ AddConflicts(db, t.arg)
       THEN /\ Reject(t.k, Tail(txq))
            /\ UNCHANGED <<db, keyGen>>
       ELSE /\ db' = CASE t.op = "add" -> StoreAdd(db, t.arg, keyGen)
                       [] t.op = "put" -> StorePut(db, t.arg, keyGen)
                       [] t.op = "delete" -> StoreDelete(db, t.arg.id)
                       [] t.op = "getAll" -> db
            /\ keyGen' = IF t.op \in {"add", "put"} THEN GenAfter(t.arg, keyGen) ELSE keyGen
            /\ Resume(t.k, WithStoreResult(Contents(db)), Tail(txq))
  /\ assigned' = assigned \cup DOMAIN db'
  /\ download' = [download EXCEPT !.fresh = @ /\ db' = db]
  /\ UNCHANGED <<faults, hung, formId, lendFormId, now, filtered>>

\* a request of the oldest transaction fails: the error event reaches
\* tx.onerror, the promise rejects, nothing is written
TxError ==
  /\ txq # <<>>
  /\ faults < MaxFaults
  /\ faults' = faults + 1
  /\ Reject(Head(txq).k, Tail(txq))
  /\ UNCHANGED <<db, keyGen, hung, assigned, formId, lendFormId, now, download, filtered>>

\* the oldest transaction aborts with no error event (commit failure, quota):
\* only tx.onabort would hear of it, and line 53 sets no onabort
TxAbort ==
  /\ txq # <<>>
  /\ faults < MaxFaults
  /\ faults' = faults + 1
  /\ hung' = hung \cup {Head(txq).k}
  /\ txq' = Tail(txq)
  /\ UNCHANGED <<db, keyGen, assigned, books, rendered, modal, formId, lendFormId, now, imp, download, filtered>>

\* ------------------------------------------------------------ book form
\* what the user can have typed into the form when Save is clicked
Titles == { <<>>, <<" ">>, <<"D">>, <<" ", "D", " ">> }

Authors == { <<"a", " ">> }

Covers == { NullStr }

\* #addBtn: openBookModal() with no book; the topbar is inert under a dialog
OpenAdd ==
  /\ modal = "none"
  /\ modal' = "book"
  /\ formId' = 0
  /\ UNCHANGED <<db, keyGen, txq, faults, hung, assigned, books, rendered, lendFormId, now, imp, download, filtered>>

\* #cancelBookBtn
CancelBook ==
  /\ modal = "book"
  /\ modal' = "none"
  /\ UNCHANGED <<db, keyGen, txq, faults, hung, assigned, books, rendered, formId, lendFormId, now, imp, download, filtered>>

\* an add branch that sets no status
ToAddNoStatus(book, t) == Spread(book, [createdAt |-> t, updatedAt |-> t])

\* line 247: the record the add branch hands to dbAPI.add (id: undefined)
ToAdd(book, t) == Spread(book, [status |-> "available", createdAt |-> t, updatedAt |-> t])

\* lines 243-244: the record the edit branch hands to dbAPI.put
Updated(bs, id, book, t) ==
  LET found == Find(bs, id)
      existing == IF found = {} THEN NoFields ELSE CHOOSE b \in found : TRUE
  IN Spread(Spread(existing, Spread(book, [id |-> id])), [updatedAt |-> t])

\* #saveBookBtn (lines 214-252) up to its first await of the Store.  author
\* stands for the trimmed text fields author, isbn, location and notes;
\* cover is the data URL of a chosen file or the prefilled URL, else null
\* (the case followed here: no file, no prefill).
\* A blank title ends the handler at line 241.
Save(rawTitle, rawAuthor, cover) ==
  /\ modal = "book"
  /\ Len(txq) < MaxPending
  /\ LET book == [title |-> Trim(rawTitle), author |-> Trim(rawAuthor), coverUrl |-> cover]
     IN IF formId # 0 /\ ~IsArray(books)
        THEN UNCHANGED txq
        ELSE IF book.title = <<>>
        THEN UNCHANGED txq
        ELSE IF formId # 0
        THEN txq' = Append(txq, Tx("put", Updated(books, formId, book, now), "save", "write"))
        ELSE /\ keyGen + Cardinality({i \in 1..Len(txq) : txq[i].op = "add"}) <= MaxKey
             /\ txq' = Append(txq, Tx("add", ToAdd(book, now), "save", "write"))
  /\ UNCHANGED <<db, keyGen, faults, hung, assigned, books, rendered, modal, formId, lendFormId, now, imp, download, filtered>>

\* ------------------------------------------------------------ row buttons
\* wireListActions hears clicks on the buttons of the rows renderList built.
\* renderList runs only after renderRoomsFilter returned, that is only when
\* state.books is an array; NoRowRendered states that this never happens, so
\* the handlers below are not part of Next.
RowShown(id, statuses) ==
  /\ modal = "none"
  /\ \E i \in 1..Len(rendered) : rendered[i].id = id /\ rendered[i].status \in statuses
  /\ IsArray(books)
  /\ Find(books, id) # {}

BookOf(id) == CHOOSE b \in Find(books, id) : TRUE

\* data-action="edit": openBookModal(book)
ClickEdit(id) ==
  /\ RowShown(id, {"available", "lent"})
  /\ modal' = "book"
  /\ formId' = id
  /\ UNCHANGED <<db, keyGen, txq, faults, hung, assigned, books, rendered, lendFormId, now, imp, download, filtered>>

\* data-action="delete": deleteBook(book), the confirm() answered with OK
ClickDelete(id) ==
  /\ RowShown(id, {"available", "lent"})
  /\ Len(txq) < MaxPending
  /\ txq' = Append(txq, Tx("delete", [id |-> id], "delete", "write"))
  /\ UNCHANGED <<db, keyGen, faults, hung, assigned, books, rendered, modal, formId, lendFormId, now, imp, download, filtered>>

\* data-action="lend", disabled on a row shown as lent: openLendModal(book)
ClickLend(id) ==
  /\ RowShown(id, {"available"})
  /\ modal' = "lend"
  /\ lendFormId' = id
  /\ UNCHANGED <<db, keyGen, txq, faults, hung, assigned, books, rendered, formId, now, imp, download, filtered>>

\* line 307: the record returnBook hands to dbAPI.put
Returned(book, t) ==
  Spread(book, [status |-> "available", lentTo |-> NullStr, lendDate |-> Null, dueDate |-> Null, updatedAt |-> t])

\* data-action="return", disabled unless the row is shown as lent
ClickReturn(id) ==
  /\ RowShown(id, {"lent"})
  /\ Len(txq) < MaxPending
  /\ txq' = Append(txq, Tx("put", Returned(BookOf(id), now), "return", "write"))
  /\ UNCHANGED <<db, keyGen, faults, hung, assigned, books, rendered, modal, formId, lendFormId, now, imp, download, filtered>>

\* line 299: the record the lend handler hands to dbAPI.put
Lent(book, lentTo, lendDate, dueDate, t) ==
  Spread(book, [status |-> "lent", lentTo |-> lentTo, lendDate |-> lendDate, dueDate |-> dueDate, updatedAt |-> t])

\* #confirmLendBtn (lines 289-303) up to its await: a book no longer in
\* state.books or a blank lentTo ends the handler
ConfirmLend(rawLentTo, lendDate, dueDate) ==
  /\ modal = "lend"
  /\ Len(txq) < MaxPending
  /\ IF ~IsArray(books) \/ Find(books, lendFormId) = {} \/ Trim(rawLentTo) = <<>>
     THEN UNCHANGED txq
     ELSE txq' = Append(txq, Tx("put", Lent(BookOf(lendFormId), Trim(rawLentTo), lendDate, dueDate, now), "lend", "write"))
  /\ UNCHANGED <<db, keyGen, faults, hung, assigned, books, rendered, modal, formId, lendFormId, now, imp, download, filtered>>

\* #cancelLendBtn
CancelLend ==
  /\ modal = "lend"
  /\ modal' = "none"
  /\ UNCHANGED <<db, keyGen, txq, faults, hung, assigned, books, rendered, formId, lendFormId, now, imp, download, filtered>>

\* ------------------------------------------------------ export / import
Idle == txq = <<>> /\ imp.phase \in {"idle", "done"}

\* #exportBtn: exportData serialises state.books (line 321)
Export ==
  /\ modal = "none"
  /\ download' = [made |-> TRUE, data |-> Stringify(books), idle |-> Idle,
                  mirrors |-> Stringify(books) = Stringify(ArrayOf(Contents(db))), fresh |-> TRUE]
  /\ UNCHANGED <<db, keyGen, txq, faults, hung, assigned, books, rendered, modal, formId, lendFormId, now, imp, filtered>>

\* #importInput change: importData starts and awaits file.text() (line 338);
\* one import at a time is followed
ImportChange(file, isDownload) ==
  /\ modal = "none"
  /\ imp.phase \in {"idle", "done"}
  /\ imp' = [NoImport EXCEPT !.phase = "reading", !.file = file, !.exported = isDownload, !.start = db]
  /\ UNCHANGED <<db, keyGen, txq, faults, hung, assigned, books, rendered, modal, formId, lendFormId, now, download, filtered>>

\* a check that lets every JSON value through
ImportRejectsNoJSON(file) == file.type = "garbage"

\* lines 339-340: JSON.parse throws on text that is no JSON, line 340 throws
\* on a JSON value that is no array
ImportRejects(file) == file.type # "array"

\* lines 338-343: both throws land in the catch of line 354.  Otherwise
\* getAll is issued
ImportRead ==
  /\ imp.phase = "reading"
  /\ IF ImportRejects(imp.file)
     THEN /\ imp' = [imp EXCEPT !.phase = "done", !.outcome = "failed"]
          /\ UNCHANGED txq
     ELSE /\ Len(txq) < MaxPending
          /\ imp' = [imp EXCEPT !.phase = "getAll", !.arr = imp.file.items]
          /\ txq' = Append(txq, Tx("getAll", NoFields, "import", "getAll"))
  /\ UNCHANGED <<db, keyGen, faults, hung, assigned, books, rendered, modal, formId, lendFormId, now, download, filtered>>

\* time passes
Tick ==
  /\ now < MaxClock
  /\ now' = now + 1
  /\ UNCHANGED <<db, keyGen, txq, faults, hung, assigned, books, rendered, modal, formId, lendFormId, imp, download, filtered>>

Next ==
  \/ TxComplete
  \/ TxError
  \/ TxAbort
  \/ OpenAdd
  \/ CancelBook
  \/ \E t \in Titles, a \in Authors, c \in Covers : Save(t, a, c)
  \/ Export
  \/ \E f \in ImportFiles : ImportChange(f, FALSE)
  \/ download.made /\ download.fresh /\ ImportChange(download.data, TRUE)
  \/ ImportRead
  \/ Tick

Spec == Init /\ [][Next]_vars

\* ------------------------------------------------- the sort on its own
\* the longest array handed to the sort
MaxTitles == 3

TheHobbit == <<"T", "h", "e", " ", "H", "o", "b", "b", "i", "t">>

Dune == <<"D", "u", "n", "e">>

AWizardOfEarthsea == <<"A", " ", "W", "i", "z", "a", "r", "d", " ", "o", "f", " ", "E", "a", "r", "t", "h", "s", "e", "a">>

\* titles a record can carry: the three above, one that differs from another
\* in case only, articles in either case, an article with nothing behind it,
\* two articles, two spaces behind an article, a blank one and none (null)
SortTitles ==
  { TheHobbit, Dune, AWizardOfEarthsea,
    <<"d", "u", "n", "e">>,
    <<" ", "a", "n", " ", "E", "l", "m", " ">>,
    <<"t", "h", "e", " ", "a", " ", "b">>,
    <<"T", "h", "e">>,
    <<"a", " ", " ", "d">>,
    <<" ">>,
    NullStr }

\* renderList up to line 110: some array of records is about to be sorted
InitSort ==
  /\ AppStart
  /\ filtered \in UNION { { [sorted |-> FALSE, items |-> [i \in 1..n |-> [id |-> i, title |-> f[i]]]] :
                              f \in [1..n -> SortTitles] } : n \in 0..MaxTitles }

\* line 111: filtered.sort(compareByTitle)
SortFiltered ==
  /\ ~filtered.sorted
  /\ filtered' = [sorted |-> TRUE, items |-> SortByTitle(filtered.items)]
  /\ UNCHANGED <<db, keyGen, txq, faults, hung, assigned, books, rendered, modal, formId, lendFormId, now, imp, download>>

NextSort == SortFiltered

SpecSort == InitSort /\ [][NextSort]_vars

\* ---------------------------------------------------------------- claims
\* helpers of the statements below; none of them uses Trim
NonBlank(t) == \E i \in 1..Len(t) : t[i] # " "

Absent(r, f, null) == f \notin DOMAIN r \/ r[f] = null

IsLent(r) == "status" \in DOMAIN r /\ r.status = "lent"

IsAvailable(r) == "status" \in DOMAIN r /\ r.status = "available"

HasBorrower(r) == "lentTo" \in DOMAIN r /\ r.lentTo # NullStr /\ r.lentTo # <<>>

Kept == (DOMAIN db) \cap (DOMAIN db')

Created == (DOMAIN db') \ (DOMAIN db)

ImportRan == imp.phase = "done" /\ imp.file.type = "array"

ImportHad(e) == \E i \in 1..Len(imp.file.items) : imp.file.items[i] = e

NoFault == faults = 0 /\ hung = {}

\* no row is ever rendered, the book form never carries an id and the lend
\* dialog never opens: the guards of ClickEdit, ClickDelete, ClickLend,
\* ClickReturn, ConfirmLend and CancelLend and the edit branch of Save are
\* never met
NoRowRendered == rendered = <<>> /\ formId = 0 /\ modal # "lend" /\ (IsArray(books) => books.items = <<>>)

C3_EveryElementProcessed ==
  ImportRan => (imp.i > Len(imp.arr) /\ imp.outcome = "complete")

\* C4: when an import of an array has ended and no transaction failed, every
\* element whose id was not in the Store when the import started is in the
\* Store as a new record under an id other than the one it carried, and the
\* records that were there are as they were.
C4_UnmatchedIdInsertedAsNew ==
  (ImportRan /\ NoFault /\ txq = <<>>) =>
    LET items == imp.file.items
        unmatched == {i \in 1..Len(items) : HasKey(items[i]) /\ items[i].id \notin DOMAIN imp.start}
    IN /\ \A i \in unmatched :
            \E k \in (DOMAIN db) \ (DOMAIN imp.start) : k # items[i].id /\ db[k].title = items[i].title
       /\ unmatched = 1..Len(items) =>
            \A k \in DOMAIN imp.start : k \in DOMAIN db /\ db[k] = imp.start[k]

C6_ExportMirrorsStore ==
  (download.made /\ download.idle) => download.mirrors

C11_OneOperationInFlight ==
  [][Len(txq') > Len(txq) =>
       /\ \A i \in 1..Len(txq) : txq[i].k.h = "init"
       /\ txq'[Len(txq')].k.h # "import" => imp.phase \in {"idle", "done"}]_vars

\* C12: every operation issued to the Store resolves or rejects, whatever the
\* outcome of its transaction: no handler is left awaiting a promise of
\* withStore whose transaction has ended, since such a promise can no longer
\* settle.
C12_EveryOperationSettles == hung = {}

C15_NonArrayImportRejected ==
  /\ [](imp.file.type = "object" =>
          /\ \A i \in 1..Len(txq) : txq[i].k.h # "import"
          /\ \A k \in hung : k.h # "import"
          /\ imp.phase \in {"reading", "done"}
          /\ imp.i = 0
          /\ imp.phase = "done" => imp.outcome = "failed")
  /\ [][(imp.phase = "reading" /\ imp.file.type = "object" /\ imp' # imp) =>
          /\ imp'.phase = "done"
          /\ imp'.outcome = "failed"
          /\ db' = db
          /\ keyGen' = keyGen
          /\ txq' = txq]_vars

C15_Witness ==
  /\ imp.phase = "done"
  /\ imp.file.type = "object"
  /\ imp.outcome = "failed"
  /\ DOMAIN db # {}
  /\ db = imp.start

C18_ListedByNormalizedTitle ==
  LET T == {filtered.items[i].title : i \in 1..Len(filtered.items)}
      Folded(t) == IF t = NullStr THEN t ELSE ToLowerCase(t)
      Cmp(s, t) == CompareByTitle([title |-> s], [title |-> t])
      Empty(t) == NormalizeTitle(t) = <<>>
      Articles == {<<"t", "h", "e", " ">>, <<"a", " ">>, <<"a", "n", " ">>}
      ArticleAt(s, k) == k <= Len(s) /\ ToLowerCase(SubSeq(s, 1, k)) \in Articles
      OneArticleOff(s, n) ==
        \E k \in 0..4 :
          /\ k <= Len(s)
          /\ n = SubSeq(s, k + 1, Len(s))
          /\ IF \E j \in 2..4 : ArticleAt(s, j) THEN ArticleAt(s, k) ELSE k = 0
      rows == filtered.items
  IN IF ~filtered.sorted
     THEN /\ \A t \in T : OneArticleOff(Trim(IF t = NullStr THEN <<>> ELSE t), NormalizeTitle(t))
          /\ \A s, t \in T :
               /\ Cmp(s, t) = 0 - Cmp(t, s)
               /\ Cmp(s, t) = Cmp(Folded(s), Folded(t))
               /\ (Empty(s) /\ ~Empty(t)) => Cmp(s, t) > 0
          /\ \A s, t, u \in T : (Cmp(s, t) <= 0 /\ Cmp(t, u) <= 0) => Cmp(s, u) <= 0
     ELSE /\ {rows[i].id : i \in 1..Len(rows)} = 1..Len(rows)
          /\ \A i, j \in 1..Len(rows) : i < j => CompareByTitle(rows[i], rows[j]) <= 0
          /\ \A i, j \in 1..Len(rows) : (i < j /\ ~Empty(rows[j].title)) => ~Empty(rows[i].title)
          /\ (Len(rows) = 3 /\ T = {TheHobbit, Dune, AWizardOfEarthsea}) =>
               [i \in 1..Len(rows) |-> rows[i].title] = <<Dune, TheHobbit, AWizardOfEarthsea>>

\* the three titles of the example have been sorted from the order the claim
\* gives them in
C18_Witness ==
  /\ filtered.sorted
  /\ [i \in 1..Len(filtered.items) |-> filtered.items[i].title] = <<Dune, TheHobbit, AWizardOfEarthsea>>
  /\ [i \in 1..Len(filtered.items) |-> filtered.items[i].id] = <<2, 1, 3>>

C20_ImportGrowsByUnmatched ==
  (ImportRan /\ NoFault /\ txq = <<>>) =>
    LET items == imp.file.items
        unmatched == {i \in 1..Len(items) : ~HasKey(items[i]) \/ items[i].id \notin DOMAIN imp.start}
        imported == {n \in (DOMAIN db) \ (DOMAIN imp.start) : "author" \notin DOMAIN db[n]}
    IN /\ Cardinality(imported) = Cardinality(unmatched)
       /\ DOMAIN imp.start \subseteq DOMAIN db

====
